---------------------------- MODULE Spec2Model ----------------------------
(***************************************************************************)
(* bevy_console: the command registry, the dispatch of a submitted line,   *)
(* the session state (edit buffer, scrollback, history) and the two event  *)
(* channels, as src/src/ui.rs and src/src/console.rs implement them.       *)
(*                                                                         *)
(* A String is a sequence of characters (one-character strings); the fixed *)
(* messages of the program are written as one chunk.  A StyledStr wraps a  *)
(* String.  Indices into history are 0-based as in the source, so slot k   *)
(* of the source is history[k + 1] here.                                   *)
(***************************************************************************)
EXTENDS Integers, Sequences, FiniteSets, TLC

\* ------------------------------------------------------------- bounds
\* SpecHistory: history_size is drawn from 0..MaxHistorySize
MaxHistorySize == 2
\* SpecHistory: non-blank submissions in one behaviour
MaxSubmits == 3
\* a line is submitted only if scrollback then holds at most this many lines
MaxScrollback == 2
\* Spec: command systems bound at startup
MaxSystems == 2
\* Spec: non-blank submissions in one behaviour
MaxDispatches == 2
\* SpecRegistry: add_console_command calls at startup
MaxRegs == 3
\* SpecRegistry: non-blank submissions in one behaviour
MaxRegSubmits == 1
\* SpecToggle: keyboard events console_ui reads in one pass
MaxKeyEvents == 2
\* SpecBurst: ConsoleCommandEntered events the host sends in one behaviour
MaxHostEvents == 3

\* ConsoleConfiguration::default().history_size
DefaultHistorySize == 50

\* ------------------------------------------------------------ strings
\* clap's StyledStr: From<String> wraps the text, Display writes it out (the
\* lines of this model carry no ANSI escape sequence for Display to strip)
StyledFrom(s) == [styled |-> s]
to_string(x) == x.styled

\* StyledStr::new()
EmptyStyled == StyledFrom(<<>>)

\* ConsoleConfiguration::default().symbol
Symbol == <<">", " ">>

ErrInvalidCommand == <<"error: Invalid command">>
OkText == <<"[ok]">>
FailedText == <<"[failed]">>

\* str::trim strips White_Space characters; the ones a line here can hold
RustWhitespace == {" ", "\t", "\n", "\r"}

\* state.buf.trim().is_empty()
TrimIsEmpty(s) == \A i \in 1..Len(s) : s[i] \in RustWhitespace

\* --------------------------------------------------------- tokenizer
\* Shlex: words are separated by ' ', '\t', '\n'; '#' where a word would
\* start opens a comment that runs to the end of the line; '...' quotes
\* literally; an unterminated quote ends the iteration.  (The lines of
\* this model hold neither '"' nor '\'.)
ShlexSpace == {" ", "\t", "\n"}

RECURSIVE CommentEnd(_, _)
CommentEnd(s, i) ==
    IF i > Len(s) THEN i
    ELSE IF s[i] = "\n" THEN i + 1
    ELSE CommentEnd(s, i + 1)

RECURSIVE SkipToWord(_, _)
\* the index where the next word starts, 0 when the input ends first
SkipToWord(s, i) ==
    IF i > Len(s) THEN 0
    ELSE IF s[i] \in ShlexSpace THEN SkipToWord(s, i + 1)
    ELSE IF s[i] = "#" THEN SkipToWord(s, CommentEnd(s, i + 1))
    ELSE i

RECURSIVE ParseSingle(_, _, _)
ParseSingle(s, i, acc) ==
    IF i > Len(s) THEN [ok |-> FALSE, word |-> acc, next |-> i]
    ELSE IF s[i] = "'" THEN [ok |-> TRUE, word |-> acc, next |-> i + 1]
    ELSE ParseSingle(s, i + 1, Append(acc, s[i]))

RECURSIVE ParseWord(_, _, _)
ParseWord(s, i, acc) ==
    IF i > Len(s) THEN [ok |-> TRUE, word |-> acc, next |-> i]
    ELSE IF s[i] = "'"
         THEN LET q == ParseSingle(s, i + 1, acc)
              IN  IF q.ok THEN ParseWord(s, q.next, q.word) ELSE q
    ELSE IF s[i] \in ShlexSpace THEN [ok |-> TRUE, word |-> acc, next |-> i + 1]
    ELSE ParseWord(s, i + 1, Append(acc, s[i]))

RECURSIVE ShlexFrom(_, _)
ShlexFrom(s, i) ==
    LET w == SkipToWord(s, i)
    IN  IF w = 0 THEN <<>>
        ELSE LET p == ParseWord(s, w, <<>>)
             IN  IF p.ok THEN <<p.word>> \o ShlexFrom(s, p.next) ELSE <<>>

\* Shlex::new(&state.buf).collect::<Vec<_>>()
Shlex(s) == ShlexFrom(s, 1)

\* ------------------------------------------------------ command types
\* The command types T of the host: T::name() and T::command().
LogName == <<"l", "o", "g">>
PingName == <<"p", "i", "n", "g">>

CommandTypes == {"LogCommand", "LogV2Command", "PingCommand"}

\* T::name()
NameOf(T) == IF T = "PingCommand" THEN PingName ELSE LogName

\* T::command().no_binary_name(true): the clap::Command of T
CommandOf(T) == [parser |-> T]

Digits == <<"1", "2">>
IsInt(tok) == Len(tok) = 1 /\ \E d \in 1..Len(Digits) : Digits[d] = tok[1]
IntOf(tok) == CHOOSE d \in 1..Len(Digits) : Digits[d] = tok[1]

\* try_get_matches_from(args) followed by T::from_arg_matches:
\*   LogCommand   { msg: String, num: Option<i64> }
\*   LogV2Command { msg: String }
\*   PingCommand  { }
ParseArgs(T, args) ==
    IF T = "LogCommand"
    THEN IF Len(args) = 1
         THEN [ok |-> TRUE, msg |-> args[1], num |-> 1]
         ELSE IF Len(args) = 2 /\ IsInt(args[2])
         THEN [ok |-> TRUE, msg |-> args[1], num |-> IntOf(args[2])]
         ELSE [ok |-> FALSE, err |-> <<"error: usage: log <MSG> [NUM]">>]
    ELSE IF T = "LogV2Command"
    THEN IF Len(args) = 1
         THEN [ok |-> TRUE, msg |-> args[1], num |-> 1]
         ELSE [ok |-> FALSE, err |-> <<"error: usage: log <MSG>">>]
    ELSE IF Len(args) = 0
         THEN [ok |-> TRUE, msg |-> <<>>, num |-> 0]
         ELSE [ok |-> FALSE, err |-> <<"error: usage: ping">>]

\* -------------------------------------------------------------- state
VARIABLES
    pc,              \* the scheduler's position: At("startup"), At("first"),
                     \* At("ui"), AtCommand(i) (the i-th command system), At("post")
    keys,            \* ConsoleConfiguration.keys
    commands,        \* ConsoleConfiguration.commands
    systems,         \* the command systems add_console_command added, in order
    history_size,    \* ConsoleConfiguration.history_size
    open,            \* ConsoleOpen.open
    buf,             \* ConsoleState.buf
    scrollback,      \* ConsoleState.scrollback
    history,         \* ConsoleState.history
    history_index,   \* ConsoleState.history_index
    command_entered, \* Events<ConsoleCommandEntered>: the two buffers
    reader,          \* per command system: events of the buffers it has read
    console_line,    \* PrintConsoleLine events receive_console_line has not read
    frame,           \* what console_ui saw in this pass (its inputs)
    submitted,       \* the non-blank lines submitted so far, oldest first
    entered,         \* the ConsoleCommandEntered events sent so far, oldest first
    handled,         \* per command system: the events get_param found for it
                     \* and what their args parsed to, oldest first
    takes            \* per command system: what the take() calls of its run
                     \* in this pass returned, in order

vars == <<pc, keys, commands, systems, history_size, open, buf, scrollback,
          history, history_index, command_entered, reader, console_line, frame,
          submitted, entered, handled, takes>>

configVars == <<keys, commands, systems, history_size>>
sessionVars == <<buf, scrollback, history, history_index>>

NoFrame == [ran |-> FALSE]

At(name) == [at |-> name, i |-> 0]
AtCommand(i) == [at |-> "cmd", i |-> i]

\* ----------------------------------------------------------- registry
\* BTreeMap::get
Lookup(cmds, name) == IF name \in DOMAIN cmds THEN <<cmds[name]>> ELSE <<>>

\* BTreeMap::insert
Insert(cmds, name, command) ==
    [n \in DOMAIN cmds \cup {name} |-> IF n = name THEN command ELSE cmds[n]]

\* mutant: a name that is already registered is warned about and kept
RegisterCommandOnce(cmds, T) ==
    IF NameOf(T) \in DOMAIN cmds THEN cmds ELSE Insert(cmds, NameOf(T), CommandOf(T))

\* the startup system of add_console_command::<T>
RegisterCommand(cmds, T) == Insert(cmds, NameOf(T), CommandOf(T))

\* ------------------------------------------------------------ session
\* VecDeque::insert(index, x)
InsertAt(q, index, x) == SubSeq(q, 1, index) \o <<x>> \o SubSeq(q, index + 1, Len(q))

\* VecDeque::pop_back
PopBack(q) == SubSeq(q, 1, Len(q) - 1)

\* mutant: the length is compared with history_size + 2
HistoryPushLate(h, cmd_string, size) ==
    LET ins == InsertAt(h, 1, StyledFrom(cmd_string))
    IN  IF Len(ins) > size + 2 THEN PopBack(ins) ELSE ins

\* mutant: the line is pushed at the back and the entry after the scratch
\* slot is dropped
HistoryPushBack(h, cmd_string, size) ==
    LET ins == Append(h, StyledFrom(cmd_string))
    IN  IF Len(ins) > size + 1 THEN <<ins[1]>> \o SubSeq(ins, 3, Len(ins)) ELSE ins

\* mutant: the history is truncated to history_size entries, scratch slot
\* included
HistoryPushTruncate(h, cmd_string, size) ==
    LET ins == InsertAt(h, 1, StyledFrom(cmd_string))
    IN  IF Len(ins) > size + 1 THEN SubSeq(ins, 1, IF size > 0 THEN size ELSE 1) ELSE ins

\* mutant: the line is inserted at the front, ahead of the scratch slot
HistoryPushFront(h, cmd_string, size) ==
    LET ins == InsertAt(h, 0, StyledFrom(cmd_string))
    IN  IF Len(ins) > size + 1 THEN PopBack(ins) ELSE ins

\* history.insert(1, cmd_string.into()); pop_back when over history_size + 1
HistoryPush(h, cmd_string, size) ==
    LET ins == InsertAt(h, 1, StyledFrom(cmd_string))
    IN  IF Len(ins) > size + 1 THEN PopBack(ins) ELSE ins

\* mutant: the event is sent without looking the name up
DispatchUnchecked(line, cmds) ==
    LET args == Shlex(line)
    IN  IF args = <<>> THEN [sent |-> <<>>, pushed |-> <<>>]
        ELSE [sent |-> <<[command_name |-> Head(args), args |-> Tail(args)]>>,
              pushed |-> <<>>]

\* mutant: an unknown command is dropped without a diagnostic
DispatchSilent(line, cmds) ==
    LET args == Shlex(line)
    IN  IF args # <<>> /\ Lookup(cmds, Head(args)) # <<>>
        THEN [sent |-> <<[command_name |-> Head(args), args |-> Tail(args)]>>,
              pushed |-> <<>>]
        ELSE [sent |-> <<>>, pushed |-> <<>>]

\* mutant: the command name is left in the event's args
DispatchKeepName(line, cmds) ==
    LET args == Shlex(line)
    IN  IF args = <<>> THEN [sent |-> <<>>, pushed |-> <<>>]
        ELSE IF Lookup(cmds, Head(args)) # <<>>
        THEN [sent |-> <<[command_name |-> Head(args), args |-> args]>>,
              pushed |-> <<>>]
        ELSE [sent |-> <<>>, pushed |-> <<StyledFrom(ErrInvalidCommand)>>]

\* tokenize and look the first token up: the event to send and the lines
\* pushed to scrollback
Dispatch(line, cmds) ==
    LET args == Shlex(line)
    IN  IF args = <<>> THEN [sent |-> <<>>, pushed |-> <<>>]
        ELSE IF Lookup(cmds, Head(args)) # <<>>
        THEN [sent |-> <<[command_name |-> Head(args), args |-> Tail(args)]>>,
              pushed |-> <<>>]
        ELSE [sent |-> <<>>, pushed |-> <<StyledFrom(ErrInvalidCommand)>>]

\* mutant: the line is tokenized first and a line without tokens is dropped
EnterLineTokensFirst(st, size, cmds) ==
    LET msg == Symbol \o st.buf
        d == Dispatch(st.buf, cmds)
    IN  IF Shlex(st.buf) = <<>>
        THEN [buf |-> <<>>, scrollback |-> st.scrollback, history |-> st.history,
              sent |-> <<>>]
        ELSE [buf |-> <<>>,
              scrollback |-> Append(st.scrollback, StyledFrom(msg)) \o d.pushed,
              history |-> HistoryPush(st.history, st.buf, size),
              sent |-> d.sent]

\* the else branch of the blank test: echo, history, dispatch, buf.clear()
EnterLine(st, size, cmds) ==
    LET msg == Symbol \o st.buf
        d == Dispatch(st.buf, cmds)
    IN  [buf |-> <<>>,
         scrollback |-> Append(st.scrollback, StyledFrom(msg)) \o d.pushed,
         history |-> HistoryPush(st.history, st.buf, size),
         sent |-> d.sent]

\* mutant: a blank line is echoed and pushed like any other
HandleEnterNoBlankTest(st, size, cmds) == EnterLine(st, size, cmds)

\* the body of `if lost_focus && Enter`: st is [buf, scrollback, history]
HandleEnter(st, size, cmds) ==
    IF TrimIsEmpty(st.buf)
    THEN [buf |-> st.buf, scrollback |-> Append(st.scrollback, EmptyStyled),
          history |-> st.history, sent |-> <<>>]
    ELSE EnterLine(st, size, cmds)

\* mutant: the edit buffer is saved to slot 0 on every ArrowUp
NavigateUpAlwaysSaves(nav) ==
    LET h == IF ~TrimIsEmpty(nav.buf)
             THEN [nav.history EXCEPT ![1] = StyledFrom(nav.buf)]
             ELSE nav.history
        i == nav.history_index + 1
    IN  [buf |-> to_string(h[i + 1]), history |-> h, history_index |-> i]

\* the ArrowUp branch: nav is [buf, history, history_index]
NavigateUp(nav) ==
    LET h == IF nav.history_index = 0 /\ ~TrimIsEmpty(nav.buf)
             THEN [nav.history EXCEPT ![1] = StyledFrom(nav.buf)]
             ELSE nav.history
        i == nav.history_index + 1
    IN  [buf |-> to_string(h[i + 1]), history |-> h, history_index |-> i]

\* the ArrowDown branch
NavigateDown(nav) ==
    LET i == nav.history_index - 1
    IN  [buf |-> to_string(nav.history[i + 1]), history |-> nav.history,
         history_index |-> i]

\* mutant: the edit buffer is saved to slot 0 before the bounds are tested
NavigateSavesFirst(nav, up, down) ==
    LET saved == IF up /\ nav.history_index = 0 /\ ~TrimIsEmpty(nav.buf)
                 THEN [nav EXCEPT !.history[1] = StyledFrom(nav.buf)]
                 ELSE nav
    IN  IF up /\ Len(nav.history) > 1 /\ nav.history_index < Len(nav.history) - 1
        THEN NavigateUp(saved)
        ELSE IF down /\ nav.history_index > 0
        THEN NavigateDown(saved)
        ELSE saved

\* `if has_focus && ArrowUp && .. else if has_focus && ArrowDown && ..`
Navigate(nav, up, down) ==
    IF up /\ Len(nav.history) > 1 /\ nav.history_index < Len(nav.history) - 1
    THEN NavigateUp(nav)
    ELSE IF down /\ nav.history_index > 0
    THEN NavigateDown(nav)
    ELSE nav

\* ---------------------------------------------------- toggle detector
\* A KeyboardInput is [scan_code, key_code, state], key_code an Option (<<>>
\* is None); a ToggleConsoleKey is <<"KeyCode", code>> or <<"ScanCode", n>>.

\* ConsoleConfiguration::default().keys
DefaultKeys == << <<"KeyCode", "Grave">> >>

RECURSIVE ConfiguredKeyLoop(_, _, _)
\* `for configured_key in configured_keys { match configured_key { .. } }`
ConfiguredKeyLoop(keyboard_input, configured_keys, j) ==
    IF j > Len(configured_keys) THEN FALSE
    ELSE IF configured_keys[j][1] = "KeyCode"
    THEN IF keyboard_input.key_code = <<>>
         THEN ConfiguredKeyLoop(keyboard_input, configured_keys, j + 1)
         ELSE IF configured_keys[j][2] = keyboard_input.key_code[1] THEN TRUE
         ELSE ConfiguredKeyLoop(keyboard_input, configured_keys, j + 1)
    ELSE IF keyboard_input.scan_code = configured_keys[j][2] THEN TRUE
    ELSE ConfiguredKeyLoop(keyboard_input, configured_keys, j + 1)

\* mutant: an event without a key code ends the loop at a key-code trigger
ConsoleKeyPressedNoneStops(keyboard_input, configured_keys) ==
    /\ keyboard_input.state = "Pressed"
    /\ \E j \in 1..Len(configured_keys) :
          /\ \/ /\ configured_keys[j][1] = "KeyCode"
                /\ keyboard_input.key_code = <<configured_keys[j][2]>>
             \/ /\ configured_keys[j][1] = "ScanCode"
                /\ keyboard_input.scan_code = configured_keys[j][2]
          /\ \A h \in 1..(j - 1) :
                ~(configured_keys[h][1] = "KeyCode" /\ keyboard_input.key_code = <<>>)

console_key_pressed(keyboard_input, configured_keys) ==
    IF keyboard_input.state # "Pressed" THEN FALSE
    ELSE ConfiguredKeyLoop(keyboard_input, configured_keys, 1)

\* what console_key_pressed returns for each of the keyboard events
KeyPressed(keyboard_input_events, configured_keys) ==
    [i \in 1..Len(keyboard_input_events) |->
        console_key_pressed(keyboard_input_events[i], configured_keys)]

\* keyboard_input_events.iter().any(|code| console_key_pressed(code, &config.keys))
AnyKeyPressed(keyboard_input_events, configured_keys) ==
    \E i \in 1..Len(keyboard_input_events) :
        console_key_pressed(keyboard_input_events[i], configured_keys)

\* mutant: a focused text input also keeps the console from closing
ToggleUnlessFocused(o, pressed, wants) == IF pressed /\ ~wants THEN ~o ELSE o

\* `if pressed && (open || !wants_keyboard_input) { open = !open }`
Toggle(o, pressed, wants) == IF pressed /\ (o \/ ~wants) THEN ~o ELSE o

\* the test of "Clear on ctrl+l": an L press among the keyboard events while
\* a control key is held
ClearPressed(keyboard_input_events, ctrl) ==
    /\ \E i \in 1..Len(keyboard_input_events) :
          /\ keyboard_input_events[i].state = "Pressed"
          /\ keyboard_input_events[i].key_code = <<"L">>
    /\ ctrl

\* mutant: ctrl+L keeps the newest line
ClearScrollbackKeepsLast(sb, ctrl_l) ==
    IF ctrl_l /\ sb # <<>> THEN <<sb[Len(sb)]>> ELSE sb

\* scrollback.clear() on ctrl+L
ClearScrollback(sb, ctrl_l) == IF ctrl_l THEN <<>> ELSE sb

\* ------------------------------------------------------ event channels
\* EventReader::iter over the two buffers, oldest first
AllEntered(ev) == ev.older \o ev.newer

\* EventWriter::send
SendAll(ev, sent) == [ev EXCEPT !.newer = @ \o sent]

\* Events::update, once per pass: the older buffer is dropped
UpdateEvents(ev) == [older |-> ev.newer, newer |-> <<>>]

\* a reader's count once the older buffer is dropped
UpdateReader(ev, n) == IF n > Len(ev.older) THEN n - Len(ev.older) ELSE 0

\* mutant: the first unread event is taken whatever its name
FindFromAnyName(evs, k, name) == IF k > Len(evs) THEN 0 ELSE k

RECURSIVE FindFrom(_, _, _)
\* position of the first event at or after k that carries this name, 0 if none
FindFrom(evs, k, name) ==
    IF k > Len(evs) THEN 0
    ELSE IF evs[k].command_name = name THEN k
    ELSE FindFrom(evs, k + 1, name)

\* mutant: the search starts at the oldest event of the buffers, read or not
GetParamFromStart(T, evs, read) ==
    LET k == FindFrom(evs, 1, NameOf(T))
    IN  IF k = 0
        THEN [command |-> <<>>, read |-> Len(evs), lines |-> <<>>]
        ELSE LET r == ParseArgs(T, evs[k].args)
             IN  [command |-> <<r>>, read |-> k,
                  lines |-> IF r.ok THEN <<>> ELSE <<StyledFrom(r.err)>>]

\* mutant: a parse error is handed to the system and not printed
GetParamSilent(T, evs, read) ==
    LET k == FindFrom(evs, read + 1, NameOf(T))
    IN  IF k = 0
        THEN [command |-> <<>>, read |-> Len(evs), lines |-> <<>>]
        ELSE [command |-> <<ParseArgs(T, evs[k].args)>>, read |-> k, lines |-> <<>>]

\* ConsoleCommand::<T>::get_param: find_map over the unread events stops at
\* the first one named T::name(); a parse error is sent as a PrintConsoleLine
GetParam(T, evs, read) ==
    LET k == FindFrom(evs, read + 1, NameOf(T))
    IN  IF k = 0
        THEN [command |-> <<>>, read |-> Len(evs), lines |-> <<>>]
        ELSE LET r == ParseArgs(T, evs[k].args)
             IN  [command |-> <<r>>, read |-> k,
                  lines |-> IF r.ok THEN <<>> ELSE <<StyledFrom(r.err)>>]

\* mutant: take hands out a copy and keeps the command
TakeKeeps(command) == [result |-> command, command |-> command]

\* ConsoleCommand::take: mem::take leaves None behind
Take(command) == [result |-> command, command |-> <<>>]

\* ConsoleCommand::ok, ::failed, ::reply, ::reply_ok, ::reply_failed
Ok == <<StyledFrom(OkText)>>
Failed == <<StyledFrom(FailedText)>>
Reply(msg) == <<StyledFrom(msg)>>
ReplyOk(msg) == Reply(msg) \o Ok
ReplyFailed(msg) == Reply(msg) \o Failed

RECURSIVE Repeat(_, _)
Repeat(lines, n) == IF n = 0 THEN <<>> ELSE lines \o Repeat(lines, n - 1)

\* the command systems of the host: `if let Some(Ok(v)) = cmd.take() { .. }`
\*   log:    reply msg num times, then ok
\*   log v2: reply_ok(msg)
\*   ping:   reply_ok("pong"); on Some(Err(_)) reply_failed("ping takes no args")
HandlerBody(T, command) ==
    IF command = <<>> THEN <<>>
    ELSE IF ~command[1].ok
    THEN IF T = "PingCommand" THEN ReplyFailed(<<"ping takes no args">>) ELSE <<>>
    ELSE IF T = "LogCommand" THEN Repeat(Reply(command[1].msg), command[1].num) \o Ok
    ELSE IF T = "LogV2Command" THEN ReplyOk(command[1].msg)
    ELSE ReplyOk(<<"pong">>)

\* mutant: only the first unread event is pushed in a pass
ReceiveLinesFirstOnly(sb, events) ==
    IF events = <<>> THEN sb ELSE Append(sb, events[1])

\* mutant: the events are pushed newest first
ReceiveLinesReversed(sb, events) ==
    sb \o [i \in 1..Len(events) |-> events[Len(events) + 1 - i]]

\* receive_console_line: every unread event's line is pushed, in order
ReceiveLines(sb, events) == sb \o events

\* ------------------------------------------------------------- inputs
LineLogHi2 == <<"l", "o", "g", " ", "h", "i", " ", "2">>
LineQuoted == <<"'", "l", "o", "g", "'", " ", "a", " ", "b", " ", "c">>
LineUnknown == <<"z", "z", " ", "x">>
LineComment == <<"#", "c">>
LineSpaces == <<" ", "\t">>
LineA == <<"a">>
LineB == <<"b">>
LinePing == <<"p", "i", "n", "g">>
LinePingX == <<"p", "i", "n", "g", " ", "x">>

\* What the text edit reports in a frame and the keys egui saw.  has_focus
\* and lost_focus exclude each other; Enter is read only with lost_focus and
\* the arrows only with has_focus, so the unread keys are left FALSE.
Keys ==
    {k \in [focus : {"has_focus", "lost_focus", "none"}, enter : BOOLEAN,
            up : BOOLEAN, down : BOOLEAN] :
        /\ k.enter => k.focus = "lost_focus"
        /\ (k.up \/ k.down) => k.focus = "has_focus"}

NoArrows == {k \in Keys : ~k.up /\ ~k.down}

Idle == {k \in NoArrows : ~k.enter}

\* What the host's input reports in a frame: the KeyboardInput events, egui's
\* wants_keyboard_input() and whether a control key is held.
GravePress == [scan_code |-> 41, key_code |-> <<"Grave">>, state |-> "Pressed"]
LPress == [scan_code |-> 38, key_code |-> <<"L">>, state |-> "Pressed"]

\* a host without another text input: the toggle key and ctrl+L
HostInputs ==
    {[keyboard |-> <<>>, wants |-> FALSE, ctrl |-> FALSE],
     [keyboard |-> <<GravePress>>, wants |-> FALSE, ctrl |-> FALSE],
     [keyboard |-> <<LPress>>, wants |-> FALSE, ctrl |-> TRUE],
     [keyboard |-> <<GravePress, LPress>>, wants |-> FALSE, ctrl |-> TRUE]}

KeyboardInputs ==
    [scan_code : {41, 42}, key_code : {<<>>, <<"Grave">>, <<"A">>},
     state : {"Pressed", "Released"}]

RECURSIVE SeqsUpTo(_, _)
\* the sequences over S of length at most n
SeqsUpTo(S, n) ==
    IF n = 0 THEN {<<>>}
    ELSE LET shorter == SeqsUpTo(S, n - 1)
         IN  shorter \cup {Append(q, x) : q \in shorter, x \in S}

\* a host with other text inputs and any keys
ToggleInputs ==
    [keyboard : SeqsUpTo(KeyboardInputs, MaxKeyEvents), wants : BOOLEAN,
     ctrl : {FALSE}]

\* the toggle keys a host may configure
ToggleConfigs ==
    {<<>>, DefaultKeys, << <<"ScanCode", 41>> >>,
     << <<"KeyCode", "Grave">>, <<"ScanCode", 41>> >>,
     << <<"KeyCode", "A">>, <<"ScanCode", 42>> >>}

\* ------------------------------------------------------------ actions
InitWith(sizes, toggles) ==
    /\ pc = At("startup")
    /\ keys \in toggles
    /\ commands = <<>>
    /\ systems = <<>>
    /\ history_size \in sizes
    /\ open = FALSE
    /\ buf = <<>>
    /\ scrollback = <<>>
    /\ history = <<EmptyStyled>>
    /\ history_index = 0
    /\ command_entered = [older |-> <<>>, newer |-> <<>>]
    /\ reader = <<>>
    /\ console_line = <<>>
    /\ frame = NoFrame
    /\ submitted = <<>>
    /\ entered = <<>>
    /\ handled = <<>>
    /\ takes = <<>>

\* add_console_command::<T>(system): the startup system registers T and the
\* command system joins the Update schedule
AddConsoleCommand(T, maxRegs) ==
    /\ pc = At("startup")
    /\ Len(systems) < maxRegs
    /\ commands' = RegisterCommand(commands, T)
    /\ systems' = Append(systems, T)
    /\ reader' = Append(reader, 0)
    /\ handled' = Append(handled, <<>>)
    /\ takes' = Append(takes, <<>>)
    /\ UNCHANGED <<pc, keys, history_size, open, sessionVars, command_entered,
                   console_line, frame, submitted, entered>>

\* the start of a pass: the event buffers rotate
EventUpdate ==
    /\ pc.at \in {"startup", "first"}
    /\ pc' = At("ui")
    /\ command_entered' = UpdateEvents(command_entered)
    /\ reader' = [i \in 1..Len(reader) |-> UpdateReader(command_entered, reader[i])]
    /\ frame' = NoFrame
    /\ takes' = [i \in 1..Len(takes) |-> <<>>]
    /\ UNCHANGED <<configVars, open, sessionVars, console_line, submitted, entered,
                   handled>>

AfterUi == IF systems = <<>> THEN At("post") ELSE AtCommand(1)

\* console_ui with the console closed after the toggle: nothing is drawn
ConsoleUiClosed(inp) ==
    /\ ~Toggle(open, AnyKeyPressed(inp.keyboard, keys), inp.wants)
    /\ open' = FALSE
    /\ frame' = [ran |-> TRUE, shown |-> FALSE, text |-> buf, submit |-> FALSE,
                 clear |-> FALSE, up |-> FALSE, down |-> FALSE,
                 keyboard |-> inp.keyboard, wants |-> inp.wants,
                 key_pressed |-> KeyPressed(inp.keyboard, keys), was_open |-> open]
    /\ UNCHANGED <<sessionVars, command_entered, submitted, entered>>

\* console_ui with the console open after the toggle: the text edit takes
\* the typed text, then Enter, ctrl+L and the arrows are handled in turn
ConsoleUiOpen(inp, k, text, maxSubmits, maxScroll) ==
    LET typed == IF k.focus = "none" THEN buf ELSE text
        st == [buf |-> typed, scrollback |-> scrollback, history |-> history]
        e == IF k.enter THEN HandleEnter(st, history_size, commands)
             ELSE [buf |-> typed, scrollback |-> scrollback, history |-> history,
                   sent |-> <<>>]
        ctrl_l == ClearPressed(inp.keyboard, inp.ctrl)
        n == Navigate([buf |-> e.buf, history |-> e.history,
                       history_index |-> history_index], k.up, k.down)
        logged == k.enter /\ ~TrimIsEmpty(typed)
    IN  /\ Toggle(open, AnyKeyPressed(inp.keyboard, keys), inp.wants)
        /\ k.enter => Len(e.scrollback) <= maxScroll
        /\ logged => Len(submitted) < maxSubmits
        /\ open' = TRUE
        /\ scrollback' = ClearScrollback(e.scrollback, ctrl_l)
        /\ buf' = n.buf
        /\ history' = n.history
        /\ history_index' = n.history_index
        /\ command_entered' = SendAll(command_entered, e.sent)
        /\ submitted' = IF logged THEN Append(submitted, typed) ELSE submitted
        /\ entered' = entered \o e.sent
        /\ frame' = [ran |-> TRUE, shown |-> TRUE, text |-> typed,
                     submit |-> k.enter, clear |-> ctrl_l, up |-> k.up,
                     down |-> k.down, keyboard |-> inp.keyboard,
                     wants |-> inp.wants,
                     key_pressed |-> KeyPressed(inp.keyboard, keys),
                     was_open |-> open]

ConsoleUi(inputs, lines, edits, maxSubmits, maxScroll) ==
    /\ pc = At("ui")
    /\ pc' = AfterUi
    /\ \E inp \in inputs :
          \/ ConsoleUiClosed(inp)
          \/ \E k \in edits, text \in lines \cup {buf} :
                ConsoleUiOpen(inp, k, text, maxSubmits, maxScroll)
    /\ UNCHANGED <<configVars, reader, console_line, handled, takes>>

\* a system of the host sends a ConsoleCommandEntered of its own before
\* console_ui runs in the pass (the channel takes any producer)
HostSend(events, maxEvents) ==
    /\ pc = At("ui")
    /\ Len(entered) < maxEvents
    /\ \E ev \in events :
          /\ command_entered' = SendAll(command_entered, <<ev>>)
          /\ entered' = Append(entered, ev)
    /\ UNCHANGED <<pc, configVars, open, sessionVars, reader, console_line, frame,
                   submitted, handled, takes>>

\* the i-th command system runs: get_param, then the body, which takes the
\* command (and here takes once more, to no effect)
CommandSystem ==
    /\ pc.at = "cmd"
    /\ LET i == pc.i
           evs == AllEntered(command_entered)
           p == GetParam(systems[i], evs, reader[i])
           first == Take(p.command)
           second == Take(first.command)
       IN  /\ reader' = [reader EXCEPT ![i] = p.read]
           /\ console_line' = console_line \o p.lines \o
                                  HandlerBody(systems[i], first.result)
           /\ handled' = IF p.command = <<>> THEN handled
                         ELSE [handled EXCEPT ![i] =
                                  Append(@, [event |-> evs[p.read],
                                             result |-> p.command[1]])]
           /\ takes' = [takes EXCEPT ![i] = <<first.result, second.result>>]
           /\ pc' = IF i < Len(systems) THEN AtCommand(i + 1) ELSE At("post")
    /\ UNCHANGED <<configVars, open, sessionVars, command_entered, frame, submitted,
                   entered>>

ReceiveConsoleLine ==
    /\ pc = At("post")
    /\ pc' = At("first")
    /\ scrollback' = ReceiveLines(scrollback, console_line)
    /\ console_line' = <<>>
    /\ UNCHANGED <<configVars, open, buf, history, history_index, command_entered,
                   reader, frame, submitted, entered, handled, takes>>

\* --------------------------------------------------- specifications
\* Spec: a host with the default configuration that binds up to MaxSystems
\* log command systems; the user types, submits and clears.
DispatchLines == {LineSpaces, LineLogHi2, LineQuoted, LineUnknown, LineComment}

Init == InitWith({DefaultHistorySize}, {DefaultKeys})

Next ==
    \/ AddConsoleCommand("LogCommand", MaxSystems)
    \/ EventUpdate
    \/ ConsoleUi(HostInputs, DispatchLines, NoArrows, MaxDispatches, MaxScrollback)
    \/ CommandSystem
    \/ ReceiveConsoleLine

Spec == Init /\ [][Next]_vars

\* SpecHistory: a host that configures history_size and registers no
\* command; the user types, submits, clears and browses the history.
HistoryLines == {LineA, LineB}

InitHistory == InitWith(0..MaxHistorySize, {DefaultKeys})

NextHistory ==
    \/ EventUpdate
    \/ ConsoleUi(HostInputs, HistoryLines, Keys, MaxSubmits, MaxScrollback)
    \/ ReceiveConsoleLine

SpecHistory == InitHistory /\ [][NextHistory]_vars

\* SpecBrowse: as SpecHistory, with a user who types one line or blanks and
\* also submits while browsing the history.
BrowseLines == {LineA, LineSpaces}

NextBrowse ==
    \/ EventUpdate
    \/ ConsoleUi(HostInputs, BrowseLines, Keys, MaxSubmits, MaxScrollback)
    \/ ReceiveConsoleLine

SpecBrowse == InitHistory /\ [][NextBrowse]_vars

\* SpecRegistry: a host that registers up to MaxRegs commands of any type.
RegistryLines == {LinePing, LineLogHi2}

\* the user toggles the console and does not clear it
RegistryInputs == {inp \in HostInputs : ~inp.ctrl}

InitRegistry == InitWith({0}, {DefaultKeys})

NextRegistry ==
    \/ \E T \in CommandTypes : AddConsoleCommand(T, MaxRegs)
    \/ EventUpdate
    \/ ConsoleUi(RegistryInputs, RegistryLines, NoArrows, MaxRegSubmits, MaxScrollback)
    \/ CommandSystem
    \/ ReceiveConsoleLine

SpecRegistry == InitRegistry /\ [][NextRegistry]_vars

\* SpecReplies: a host with the default configuration that binds up to
\* MaxSystems ping command systems, which reply to a parse failure as well.
ReplyLines == {LinePing, LinePingX}

NextReplies ==
    \/ AddConsoleCommand("PingCommand", MaxSystems)
    \/ EventUpdate
    \/ ConsoleUi(HostInputs, ReplyLines, NoArrows, MaxDispatches, MaxScrollback)
    \/ CommandSystem
    \/ ReceiveConsoleLine

SpecReplies == Init /\ [][NextReplies]_vars

\* SpecBurst: a host with the default configuration that binds up to
\* MaxSystems log command systems and sends commands itself, several in one
\* pass as well; the user only toggles the console.
HostEvents ==
    {[command_name |-> LogName, args |-> << <<"h", "i">> >>],
     [command_name |-> LogName, args |-> << <<"a">>, <<"2">> >>],
     [command_name |-> PingName, args |-> <<>>]}

NextBurst ==
    \/ AddConsoleCommand("LogCommand", MaxSystems)
    \/ EventUpdate
    \/ HostSend(HostEvents, MaxHostEvents)
    \/ ConsoleUi(RegistryInputs, {}, Idle, 0, 0)
    \/ CommandSystem
    \/ ReceiveConsoleLine

SpecBurst == Init /\ [][NextBurst]_vars

\* SpecToggle: a host that configures the toggle keys and has other text
\* inputs; the user presses and releases keys and types nothing.
InitToggle == InitWith({DefaultHistorySize}, ToggleConfigs)

NextToggle ==
    \/ EventUpdate
    \/ ConsoleUi(ToggleInputs, {}, Idle, 0, 0)
    \/ ReceiveConsoleLine

SpecToggle == InitToggle /\ [][NextToggle]_vars

\* ------------------------------------------------------------- claims
Min(a, b) == IF a < b THEN a ELSE b

\* the k most recent lines of a log, most recent first, as history holds them
RecentFirst(log, k) ==
    [i \in 1..Min(k, Len(log)) |-> StyledFrom(log[Len(log) + 1 - i])]

\* C1: in every reachable state the history, scratch slot included, holds at
\* most history_size + 1 entries, for every configured history_size.
C1_HistoryLength == Len(history) <= history_size + 1

\* more lines were submitted than history_size, so a submit evicted an entry
C1_Witness ==
    /\ history_size > 0
    /\ Len(submitted) > history_size
    /\ Len(history) = history_size + 1

\* C2: slots 1, 2, .. of the history hold exactly the most recent
\* min(n, history_size) of the n non-blank lines submitted, most recent first.
C2_RecentFirst ==
    SubSeq(history, 2, Len(history)) = RecentFirst(submitted, history_size)

\* history_size = 2 and a, b, a submitted: the first a is evicted
C2_Witness ==
    /\ history_size = 2
    /\ submitted = <<LineA, LineB, LineA>>
    /\ SubSeq(history, 2, Len(history)) = <<StyledFrom(LineA), StyledFrom(LineB)>>

\* C3: the history keeps its scratch slot and the cursor is an index of it.
C3_CursorInBounds ==
    /\ Len(history) >= 1
    /\ 0 <= history_index
    /\ history_index < Len(history)

\* a submit has evicted an entry while the cursor was on the last slot
C3_Witness ==
    /\ frame.ran /\ frame.submit /\ ~TrimIsEmpty(frame.text)
    /\ history_size > 0
    /\ Len(submitted) > history_size
    /\ history_index = Len(history) - 1

\* the step is a run of console_ui; frame' holds what it saw
UiStep == pc = At("ui") /\ frame'.ran

\* the line console_ui submitted in this pass and its tokens
Echo(line) == StyledFrom(Symbol \o line)
Registered(tokens) == tokens # <<>> /\ Head(tokens) \in DOMAIN commands

\* C4: submitting an empty or whitespace-only line sends no
\* ConsoleCommandEntered, pushes exactly one blank line to scrollback (which
\* a ctrl+L of the same frame then clears) and leaves the history and the
\* cursor as they were.
C4_BlankSubmit ==
    [][(UiStep /\ frame'.submit /\ TrimIsEmpty(frame'.text)) =>
          /\ command_entered' = command_entered
          /\ history' = history
          /\ history_index' = history_index
          /\ ~frame'.clear => scrollback' = Append(scrollback, EmptyStyled)]_vars

\* a whitespace-only line was submitted with a command registered and lines
\* in the history
C4_Witness ==
    /\ frame.ran /\ frame.submit /\ ~frame.clear
    /\ frame.text = LineSpaces
    /\ commands # <<>>
    /\ Len(history) > 1
    /\ scrollback # <<>>
    /\ scrollback[Len(scrollback)] = EmptyStyled

\* C5: submitting a line whose first token is no registered name pushes the
\* echo and then "error: Invalid command" to scrollback and sends no event;
\* no event in the channel ever carries an unregistered name.
C5_InvalidCommand ==
    [][/\ (UiStep /\ frame'.submit /\ ~TrimIsEmpty(frame'.text)
              /\ Shlex(frame'.text) # <<>> /\ ~Registered(Shlex(frame'.text))) =>
             /\ command_entered' = command_entered
             /\ ~frame'.clear =>
                   scrollback' = scrollback \o
                       <<Echo(frame'.text), StyledFrom(ErrInvalidCommand)>>
       /\ \A i \in 1..Len(AllEntered(command_entered')) :
             AllEntered(command_entered')[i].command_name \in DOMAIN commands'
      ]_vars

\* the pass of an unknown command has ended with a command system bound
C5_Witness ==
    /\ pc = At("first")
    /\ frame.ran /\ frame.submit /\ ~frame.clear
    /\ frame.text = LineUnknown
    /\ systems # <<>>
    /\ scrollback = <<Echo(LineUnknown), StyledFrom(ErrInvalidCommand)>>
    /\ AllEntered(command_entered) = <<>>

\* C6: submitting a non-blank line whose first token is a registered name
\* sends exactly one ConsoleCommandEntered, with that token as command_name
\* and the other tokens, in order, as args; no run of console_ui sends more
\* than one event.
C6_CommandEntered ==
    [][UiStep =>
          LET tokens == Shlex(frame'.text)
          IN  /\ (frame'.submit /\ ~TrimIsEmpty(frame'.text) /\ Registered(tokens)) =>
                    /\ command_entered'.older = command_entered.older
                    /\ command_entered'.newer =
                          Append(command_entered.newer,
                                 [command_name |-> Head(tokens), args |-> Tail(tokens)])
              /\ Len(AllEntered(command_entered')) <=
                    Len(AllEntered(command_entered)) + 1]_vars

\* "'log' a b c" was submitted: the event carries log and the args a, b, c
C6_Witness ==
    /\ frame.ran /\ frame.submit
    /\ frame.text = LineQuoted
    /\ command_entered.newer =
          <<[command_name |-> LogName, args |-> <<<<"a">>, <<"b">>, <<"c">>>>]>>

\* what the log system replies to the args it accepts
LogReplies(args) ==
    LET num == IF Len(args) = 2 THEN IntOf(args[2]) ELSE 1
    IN  [i \in 1..num |-> StyledFrom(args[1])] \o <<StyledFrom(OkText)>>

\* C7: in a pass whose submitted line names a registered command and carries
\* args the log systems accept (and no ctrl+L), scrollback ends the pass with
\* the echo followed by the replies of each bound system, in the order they
\* were sent.
C7_EchoThenReplies ==
    [][(pc = At("post") /\ frame.ran /\ frame.submit /\ ~frame.clear
           /\ ~TrimIsEmpty(frame.text) /\ Registered(Shlex(frame.text))
           /\ ParseArgs("LogCommand", Tail(Shlex(frame.text))).ok) =>
          /\ scrollback[Len(scrollback)] = Echo(frame.text)
          /\ scrollback' = scrollback \o
                Repeat(LogReplies(Tail(Shlex(frame.text))), Len(systems))]_vars

\* "log hi 2" with one log system: "> log hi 2", "hi", "hi", "[ok]"
C7_Witness ==
    /\ pc = At("first")
    /\ frame.ran /\ frame.submit /\ ~frame.clear
    /\ frame.text = LineLogHi2
    /\ Len(systems) = 1
    /\ scrollback = <<Echo(LineLogHi2), StyledFrom(<<"h", "i">>),
                      StyledFrom(<<"h", "i">>), StyledFrom(OkText)>>

\* the command of the last add_console_command call for a name, if any
LastRegistered(name) ==
    LET calls == {i \in 1..Len(systems) : NameOf(systems[i]) = name}
    IN  IF calls = {} THEN <<>>
        ELSE <<CommandOf(systems[CHOOSE i \in calls : \A j \in calls : j <= i])>>

\* C8: lookup returns the command of the most recent registration of the
\* name, and nothing for a name never registered; registering again
\* overwrites that name only.
C8_LookupLatest ==
    \A name \in {LogName, PingName, <<"z", "z">>} :
        Lookup(commands, name) = LastRegistered(name)

\* log was registered, then ping, then log again with another command type
C8_Witness ==
    /\ systems = <<"LogCommand", "PingCommand", "LogV2Command">>
    /\ Lookup(commands, LogName) = <<CommandOf("LogV2Command")>>
    /\ Lookup(commands, PingName) = <<CommandOf("PingCommand")>>

\* C9 as stated: ArrowUp at cursor 0 with a non-blank edit buffer leaves the
\* buffer in slot 0.
C9_Original ==
    [][(UiStep /\ frame'.up /\ history_index = 0 /\ ~TrimIsEmpty(frame'.text)) =>
          history'[1] = StyledFrom(frame'.text)]_vars

\* C9, amended: with a submitted line in the history, ArrowUp at cursor 0
\* with a non-blank edit buffer B moves the cursor to 1 and leaves B in slot
\* 0; slot 0 is not written while the cursor is above 0; and the step that
\* brings the cursor back to 0 loads slot 0 into the edit buffer.
C9_ScratchRoundTrip ==
    [][/\ (UiStep /\ frame'.up /\ history_index = 0 /\ ~TrimIsEmpty(frame'.text)
              /\ Len(history) > 1) =>
             /\ history'[1] = StyledFrom(frame'.text)
             /\ history_index' = 1
       /\ history_index > 0 => history'[1] = history[1]
       /\ (history_index > 0 /\ history_index' = 0) => buf' = to_string(history[1])
      ]_vars

\* ArrowDown has brought the cursor back to 0 and loaded the saved buffer
C9_Witness ==
    /\ frame.ran /\ frame.down /\ ~frame.up
    /\ history_index = 0
    /\ Len(history) > 1
    /\ ~TrimIsEmpty(buf)
    /\ buf = to_string(history[1])
    /\ frame.text # buf

\* the edit buffer, the history, the cursor and (without ctrl+L) scrollback
\* are as they were before the arrow key
C10_Unchanged ==
    /\ buf' = frame'.text
    /\ history' = history
    /\ history_index' = history_index
    /\ ~frame'.clear => scrollback' = scrollback

\* C10: ArrowDown at cursor 0 and ArrowUp at the last slot change nothing.
C10_NoOpAtBounds ==
    [][UiStep =>
          /\ (frame'.down /\ ~frame'.up /\ history_index = 0) => C10_Unchanged
          /\ (frame'.up /\ ~frame'.down /\ history_index = Len(history) - 1) =>
                C10_Unchanged]_vars

\* ArrowUp was pressed on the last slot of a history with submitted lines,
\* with text in the edit buffer that is not that slot's
C10_Witness ==
    /\ frame.ran /\ frame.up /\ ~frame.down
    /\ Len(history) > 1
    /\ history_index = Len(history) - 1
    /\ ~TrimIsEmpty(buf)
    /\ buf = frame.text
    /\ buf # to_string(history[history_index + 1])

\* a configured trigger matches the event: a key-code trigger by the event's
\* key code, a scan-code trigger by its scan code
TriggerMatches(trigger, ev) ==
    \/ trigger[1] = "KeyCode" /\ ev.key_code = <<trigger[2]>>
    \/ trigger[1] = "ScanCode" /\ ev.scan_code = trigger[2]

\* the event is a press that some configured trigger matches
MatchingPress(ev) ==
    /\ ev.state = "Pressed"
    /\ \E j \in 1..Len(keys) : TriggerMatches(keys[j], ev)

\* C11: a matching trigger press closes an open console whatever
\* wants_keyboard_input() says, opens a closed console exactly when no other
\* text input wants the keyboard, and without a matching press the open flag
\* keeps its value.
C11_TogglePolicy ==
    [][UiStep =>
          LET pressed == \E i \in 1..Len(frame'.keyboard) :
                             MatchingPress(frame'.keyboard[i])
          IN  /\ (pressed /\ open) => ~open'
              /\ (pressed /\ ~open) => (open' <=> ~frame'.wants)
              /\ ~pressed => open' = open]_vars

\* the console was open and a matching press closed it while another text
\* input wanted the keyboard
C11_Witness ==
    /\ frame.ran /\ frame.was_open /\ frame.wants
    /\ \E i \in 1..Len(frame.keyboard) : MatchingPress(frame.keyboard[i])
    /\ ~open

\* C12: console_key_pressed returns true for an event exactly when the event
\* is a press and some configured trigger matches it; so a release is never
\* a toggle, and an event without a key code is one when its scan code is
\* configured.
C12_ShouldToggle ==
    frame.ran =>
        \A i \in 1..Len(frame.keyboard) :
            /\ frame.key_pressed[i] = MatchingPress(frame.keyboard[i])
            /\ frame.keyboard[i].state = "Released" => ~frame.key_pressed[i]
            /\ (/\ frame.keyboard[i].state = "Pressed"
                /\ \E j \in 1..Len(keys) :
                      keys[j] = <<"ScanCode", frame.keyboard[i].scan_code>>)
                  => frame.key_pressed[i]

\* a press without a key code matched the scan-code trigger configured
\* behind a key-code trigger, and the console opened
C12_Witness ==
    /\ keys = << <<"KeyCode", "Grave">>, <<"ScanCode", 41>> >>
    /\ frame.ran /\ ~frame.was_open /\ ~frame.wants
    /\ frame.keyboard = <<[scan_code |-> 41, key_code |-> <<>>, state |-> "Pressed"]>>
    /\ frame.key_pressed = <<TRUE>>
    /\ open

\* the event console_ui sends for a line that names a registered command
EventOf(line) == [command_name |-> Head(Shlex(line)), args |-> Tail(Shlex(line))]

\* the events sent so far that carry this name, in emission order
Emitted(name) == SelectSeq(entered, LAMBDA ev : ev.command_name = name)

\* the events get_param has found for the i-th command system, oldest first
HandledEvents(i) == [h \in 1..Len(handled[i]) |-> handled[i][h].event]

\* C13: a command system is only ever given events that carry its own name,
\* and when a pass ends every bound system, also one of several bound to the
\* same name, has been given every event of its name sent so far.
C13_Broadcast ==
    \A i \in 1..Len(systems) :
        /\ \A h \in 1..Len(handled[i]) :
              handled[i][h].event.command_name = NameOf(systems[i])
        /\ pc = At("first") => HandledEvents(i) = Emitted(NameOf(systems[i]))

\* two systems bound to log and one to ping: "log hi 2" reached both log
\* systems and not the ping system
C13_Witness ==
    /\ pc = At("first")
    /\ systems = <<"LogCommand", "PingCommand", "LogV2Command">>
    /\ submitted = <<LineLogHi2>>
    /\ HandledEvents(1) = <<EventOf(LineLogHi2)>>
    /\ HandledEvents(2) = <<>>
    /\ HandledEvents(3) = <<EventOf(LineLogHi2)>>

\* the unread events that carry the name of the i-th command system
Pending(i) ==
    {k \in (reader[i] + 1)..Len(AllEntered(command_entered)) :
        AllEntered(command_entered)[k].command_name = NameOf(systems[i])}

\* the first of them
FirstPending(i) ==
    AllEntered(command_entered)[CHOOSE k \in Pending(i) : \A j \in Pending(i) : k <= j]

\* the lines a step has added to the PrintConsoleLine channel
Printed == SubSeq(console_line', Len(console_line) + 1, Len(console_line'))

\* C14: a line that names a registered command is sent as an event also when
\* its args do not parse; the command system that finds the event prints the
\* rendered error first and once, whatever its body prints after it, take()
\* gives the body an Err, and nothing of the success branch is printed.
C14_ParseFailure ==
    [][/\ (UiStep /\ frame'.submit /\ ~TrimIsEmpty(frame'.text)
              /\ Registered(Shlex(frame'.text))) =>
             command_entered'.newer =
                 Append(command_entered.newer, EventOf(frame'.text))
       /\ (pc.at = "cmd" /\ Pending(pc.i) # {}
              /\ ~ParseArgs(systems[pc.i], FirstPending(pc.i).args).ok) =>
             LET err == StyledFrom(ParseArgs(systems[pc.i], FirstPending(pc.i).args).err)
             IN  /\ Len(console_line') >= Len(console_line)
                 /\ SubSeq(console_line', 1, Len(console_line)) = console_line
                 /\ Printed # <<>> /\ Printed[1] = err
                 /\ \A h \in 2..Len(Printed) :
                       Printed[h] \notin {err, StyledFrom(OkText), StyledFrom(<<"pong">>)}
                 /\ takes'[pc.i][1] # <<>> /\ ~takes'[pc.i][1][1].ok
      ]_vars

\* "ping x" failed to parse: the error came first, then the body's
\* reply_failed; after a clear, "ping" was answered as usual
C14_Witness ==
    /\ pc = At("first")
    /\ Len(systems) = 1
    /\ submitted = <<LinePingX, LinePing>>
    /\ ~handled[1][1].result.ok
    /\ handled[1][2].result.ok
    /\ scrollback = <<Echo(LinePing), StyledFrom(<<"pong">>), StyledFrom(OkText)>>

\* what the ping system's body prints for the command it took
PingReplies(ok) ==
    IF ok THEN <<StyledFrom(<<"pong">>), StyledFrom(OkText)>>
    ELSE <<StyledFrom(<<"ping takes no args">>), StyledFrom(FailedText)>>

\* C15: console_ui and the command systems leave the lines already queued in
\* place; a command system writes nothing to scrollback and queues its
\* output behind them, reply_ok as the reply followed by "[ok]" and
\* reply_failed as the reply followed by "[failed]"; receive_console_line
\* appends the queued lines to scrollback in the order they were sent and
\* leaves none to be appended again.
C15_PrintLineOrder ==
    [][/\ UiStep => console_line' = console_line
       /\ pc.at = "cmd" =>
             /\ scrollback' = scrollback
             /\ SubSeq(console_line', 1, Len(console_line)) = console_line
             /\ Pending(pc.i) = {} => Printed = <<>>
             /\ Pending(pc.i) # {} =>
                   LET r == ParseArgs(systems[pc.i], FirstPending(pc.i).args)
                   IN  Printed = (IF r.ok THEN <<>> ELSE <<StyledFrom(r.err)>>)
                                     \o PingReplies(r.ok)
       /\ pc = At("post") =>
             /\ scrollback' = scrollback \o console_line
             /\ console_line' = <<>>
      ]_vars

\* "ping x" with two ping systems: each printed its error and its
\* reply_failed, and scrollback holds them behind the echo in that order
C15_Witness ==
    /\ pc = At("first")
    /\ Len(systems) = 2
    /\ frame.ran /\ frame.submit /\ frame.text = LinePingX
    /\ console_line = <<>>
    /\ scrollback = <<Echo(LinePingX)>>
                        \o <<StyledFrom(<<"error: usage: ping">>)>> \o PingReplies(FALSE)
                        \o <<StyledFrom(<<"error: usage: ping">>)>> \o PingReplies(FALSE)

IsPrefix(p, q) == Len(p) <= Len(q) /\ SubSeq(q, 1, Len(p)) = p

\* C16: a step without ctrl+L keeps the scrollback it found as a prefix of
\* the new one; ctrl+L in an open console leaves scrollback empty, also when
\* a line is submitted in the same frame; and a frame with ctrl+L and
\* nothing else (no toggle press, no Enter, no arrow, no typing) leaves the
\* edit buffer, the history, the cursor and the open flag as they were.
C16_AppendOnly ==
    [][/\ ~(UiStep /\ frame'.clear) => IsPrefix(scrollback, scrollback')
       /\ (UiStep /\ frame'.clear) =>
             /\ scrollback' = <<>>
             /\ (/\ ~frame'.submit /\ ~frame'.up /\ ~frame'.down
                 /\ frame'.text = buf
                 /\ \A i \in 1..Len(frame'.key_pressed) : ~frame'.key_pressed[i]) =>
                   /\ buf' = buf
                   /\ history' = history
                   /\ history_index' = history_index
                   /\ open' = open
      ]_vars

\* ctrl+L alone was pressed while the user was browsing the history with
\* lines echoed before
C16_Witness ==
    /\ frame.ran /\ frame.clear /\ ~frame.submit /\ ~frame.up /\ ~frame.down
    /\ frame.keyboard = <<LPress>>
    /\ frame.text = buf
    /\ history_index > 0
    /\ ~TrimIsEmpty(buf)
    /\ Len(submitted) > 1
    /\ scrollback = <<>>

\* the events of the newer buffer (sent in the current pass) with this name
SentThisPass(name) ==
    SelectSeq(command_entered.newer, LAMBDA ev : ev.command_name = name)

\* C17: a command system is given the events of its name in the order they
\* were sent, none skipped and none again; and when a pass ends, the only
\* events of its name it has not been given yet were sent in that pass.
C17_VisibleInOrder ==
    \A i \in 1..Len(systems) :
        /\ IsPrefix(HandledEvents(i), Emitted(NameOf(systems[i])))
        /\ pc = At("first") =>
              Len(Emitted(NameOf(systems[i]))) - Len(HandledEvents(i))
                  <= Len(SentThisPass(NameOf(systems[i])))

\* "'log' a b c" and "log hi 2" were submitted in consecutive passes, so both
\* events are in the buffers, and the system was given them in that order
C17_Witness ==
    /\ pc = At("first")
    /\ Len(systems) = 1
    /\ submitted = <<LineQuoted, LineLogHi2>>
    /\ command_entered = [older |-> <<EventOf(LineQuoted)>>,
                          newer |-> <<EventOf(LineLogHi2)>>]
    /\ HandledEvents(1) = <<EventOf(LineQuoted), EventOf(LineLogHi2)>>

\* console_ui submits a line whose first token is no registered name
UnknownSubmitted ==
    /\ UiStep /\ frame'.submit /\ ~TrimIsEmpty(frame'.text)
    /\ Shlex(frame'.text) # <<>> /\ ~Registered(Shlex(frame'.text))

C19_TakeOnce ==
    [][pc.at = "cmd" =>
          /\ Len(takes'[pc.i]) = 2
          /\ takes'[pc.i][2] = <<>>
          /\ Pending(pc.i) = {} => takes'[pc.i][1] = <<>>
          /\ Pending(pc.i) # {} =>
                takes'[pc.i][1] =
                    <<ParseArgs(systems[pc.i], FirstPending(pc.i).args)>>
      ]_vars

\* "ping" reached two ping systems: each took the parsed command once and
\* nothing the second time
C19_Witness ==
    /\ pc = At("post")
    /\ Len(systems) = 2
    /\ frame.ran /\ frame.submit /\ frame.text = LinePing
    /\ \A i \in 1..2 : takes[i] = << <<ParseArgs("PingCommand", <<>>)>>, <<>> >>

\* C20: a non-blank submitted line is echoed as symbol + line right behind
\* the scrollback found and is inserted into history at index 1, slot 0 and
\* the older entries keeping their order, whatever the line tokenizes to;
\* a line without tokens adds nothing else to scrollback and no event.
C20_EchoAndPush ==
    [][(UiStep /\ frame'.submit /\ ~TrimIsEmpty(frame'.text)) =>
          /\ ~frame'.clear =>
                IsPrefix(Append(scrollback, Echo(frame'.text)), scrollback')
          /\ history' = <<history[1], StyledFrom(frame'.text)>>
                            \o SubSeq(history, 2, Len(history))
          /\ Shlex(frame'.text) = <<>> =>
                /\ command_entered' = command_entered
                /\ ~frame'.clear =>
                      scrollback' = Append(scrollback, Echo(frame'.text))
      ]_vars

\* "#c" has no tokens: with a command registered and an earlier line in the
\* history, it was echoed and pushed and nothing else happened
C20_Witness ==
    /\ pc = At("first")
    /\ commands # <<>>
    /\ frame.ran /\ frame.submit /\ ~frame.clear
    /\ frame.text = LineComment
    /\ Len(history) = 3
    /\ history[2] = StyledFrom(LineComment)
    /\ scrollback = <<Echo(LineComment)>>
    /\ AllEntered(command_entered) = <<>>

\* C22: a frame that submits a line, blank or not, leaves the cursor and
\* slot 0 of the history as they were; a non-blank line is then found at
\* index 1 (when history_size > 0) and a blank one leaves the whole history.
C22_SubmitKeepsCursor ==
    [][(UiStep /\ frame'.submit) =>
          /\ history_index' = history_index
          /\ history'[1] = history[1]
          /\ (~TrimIsEmpty(frame'.text) /\ history_size > 0) =>
                history'[2] = StyledFrom(frame'.text)
          /\ TrimIsEmpty(frame'.text) => history' = history
      ]_vars

\* with history_size 2, "a" was submitted a third time while the cursor was
\* on slot 2 and typed text was saved in slot 0: the oldest entry was
\* evicted, the cursor stayed on slot 2 and slot 0 kept the text
C22_Witness ==
    /\ frame.ran /\ frame.submit /\ frame.text = LineA
    /\ history_size = 2
    /\ Len(submitted) = 3
    /\ history_index = 2
    /\ history[1] = StyledFrom(LineA)
    /\ history[2] = StyledFrom(LineA)
    /\ Len(history) = 3

\* C21 as stated: a command system is given the events of its name in the
\* order they were sent, none twice, and none is skipped: an event of its
\* name it has not been given yet is still among its unread events.
C21_ExactlyOnce ==
    \A i \in 1..Len(systems) :
        /\ IsPrefix(HandledEvents(i), Emitted(NameOf(systems[i])))
        /\ Len(Emitted(NameOf(systems[i]))) - Len(HandledEvents(i))
              = Cardinality(Pending(i))

=============================================================================
